---- MODULE Spec2Model ----
(***************************************************************************)
(* Model of render_cli.extract_thread_color_from_pattern: the sampling of  *)
(* the top-right corner of a pattern image, the frequency count of its     *)
(* opaque pixels, the single-pixel fallback and the #RRGGBB encoding.      *)
(* One call is a sequence of steps (Open, Scan per pixel, SelectMostCommon *)
(* or Fallback, Return); the caller may call again on the same file.       *)
(* SpecMain is the batch loop of render_cli.main over the pattern files,   *)
(* SpecScene the generated script inside Blender (.render_temp.py), and    *)
(* SpecTwin the function called on two files of one size.                  *)
(***************************************************************************)
EXTENDS Integers, Sequences, FiniteSets

VARIABLES
    image,          \* the decoded RGBA pattern file: [w, h, data, block]
    pc,             \* position in the call: idle, scan, return, error
    outputs,        \* the strings returned by the calls made so far
    width,          \* locals of the call in progress (lines 26-33)
    height,
    sample_width,
    sample_height,
    start_x,
    start_y,
    sx,             \* loop counters (lines 38-39)
    sy,
    colors,         \* the list built at lines 36-49
    reads,          \* every coordinate handed to getpixel in this call
    rgb,            \* most_common (line 53) or r, g, b (line 60)
    hex_color,      \* lines 54 / 61
    path            \* which branch of line 52 produced hex_color

\* render_cli.main: the command line, the files it touches, its locals
VARIABLES
    platform,                 \* posix or nt: os.linesep of the text files
    args_threads_color,       \* args.threads_color (line 95)
    config_threads_color,     \* config['threads_color'] (line 123)
    patterns_dir,             \* patterns/: [exists, names, corrupt]
    render_script,            \* render_rashguard.py: [exists, bytes]
    temp_script,              \* .render_temp.py: [exists, bytes]
    blender_found,            \* a Blender executable and the blend file exist
    patterns_to_render,       \* line 160
    pattern_index,            \* position of the for loop of line 220
    template_loaded,          \* original_script_content is not None
    original_script_content,  \* line 226
    thread_color,             \* line 238
    script_content,           \* lines 228-254
    raised,                   \* the exception leaving the try block, if any
    main_pc,                  \* position in main
    launches,                 \* the scripts Blender was started with, and its exit codes
    script_at_first_read,     \* the bytes of render_rashguard.py when line 225 opened it
    script_writes             \* how often line 297 wrote render_rashguard.py

call_vars == <<image, pc, outputs, width, height, sample_width, sample_height,
               start_x, start_y, sx, sy, colors, reads, rgb, hex_color, path>>

main_vars == <<platform, args_threads_color, config_threads_color, patterns_dir,
               render_script, temp_script, blender_found, patterns_to_render,
               pattern_index, template_loaded, original_script_content,
               thread_color, script_content, raised, main_pc, launches,
               script_at_first_read, script_writes>>

\* .render_temp.py inside Blender: the Rashguard object and the datablocks
\* its material slots refer to
VARIABLES
    obj,                 \* bpy.data.objects.get(RASHGUARD_OBJECT): [exists, material_slots]
    materials,           \* bpy.data.materials: name -> [use_nodes, nodes]
    node_groups,         \* bpy.data.node_groups: name -> the nodes of the group
    color_hex,           \* THREADS_COLOR (line 24), the argument of line 302
    idx,                 \* the slot the running loop is at, 0-based
    updated_count,       \* lines 45 and 87
    assign_result,       \* the value returned at line 64
    materials_before,    \* the datablocks when apply_threads_color was entered
    node_groups_before,
    bpy_pc               \* position in the script's main

scene_vars == <<obj, materials, node_groups, color_hex, idx, updated_count,
                assign_result, materials_before, node_groups_before, bpy_pc>>

vars == <<call_vars, main_vars, scene_vars>>

----------------------------------------------------------------------------
(* Bounds of the model *)

\* the raster of a modelled image repeats with this period
Period == 4
\* largest width and height of the images of the geometry family
MaxW == 30
MaxH == 40
\* calls of the function on one file
MaxCalls == 2

----------------------------------------------------------------------------
(* Pixels and images *)

\* RGBA pixels <<r, g, b, a>> the modelled files are built from
Red255    == <<255, 0, 0, 255>>
Red201    == <<255, 0, 0, 201>>
Blue255   == <<0, 0, 255, 255>>
Blue200   == <<0, 0, 255, 200>>
Clear     == <<10, 20, 30, 0>>

Azure     == <<0, 127, 255, 255>>

Palette == {Red255, Red201, Blue255, Blue200, Clear}

\* a rectangle of one pixel value laid over the raster; NoBlock covers nothing
NoBlock == [x |-> 0, y |-> 0, w |-> 0, h |-> 0, pixel |-> Clear]

\* sizes of the images whose raster takes every periodic content
ContentDims == {<<1, 1>>, <<20, 20>>, <<21, 40>>, <<50, 50>>}

ContentImages ==
    {[w |-> d[1], h |-> d[2], data |-> r, block |-> NoBlock] :
        d \in ContentDims, r \in [1..Period -> Palette]}

\* images of one colour, of every size up to MaxW x MaxH
GeometryImages ==
    {[w |-> ww, h |-> hh, data |-> [i \in 1..Period |-> p], block |-> NoBlock] :
        ww \in 1..MaxW, hh \in 1..MaxH, p \in {Red255, Clear}}

\* images of one colour and of a size whose tenth is several pixels
TwinDims == {<<40, 40>>, <<60, 60>>}

TwinImages ==
    {[w |-> d[1], h |-> d[2], data |-> [i \in 1..Period |-> p], block |-> NoBlock] :
        d \in TwinDims, p \in {Azure, Clear}}

\* the blocks of a tenth of the image, on the grid of that size
Blocks(img) ==
    {[x |-> bx * (img.w \div 10), y |-> by * (img.h \div 10),
      w |-> img.w \div 10, h |-> img.h \div 10, pixel |-> p] :
        bx \in 0..9, by \in 0..9, p \in {Clear, Red255}}

InBlock(b, x, y) == b.x <= x /\ x < b.x + b.w /\ b.y <= y /\ y < b.y + b.h

InBounds(img, x, y) == 0 <= x /\ x < img.w /\ 0 <= y /\ y < img.h

\* pil_image.getpixel((x, y)) of an in-range coordinate: the row-major raster
GetPixel(img, x, y) ==
    IF InBlock(img.block, x, y) THEN img.block.pixel
    ELSE img.data[((y * img.w + x) % Period) + 1]

----------------------------------------------------------------------------
(* The sample rectangle, lines 30-33.  int(n * 0.1), int(n * 0.9) and      *)
(* int(n * 0.05) equal the integer floors for every n up to 200000.        *)

Max(a, b) == IF a >= b THEN a ELSE b
Min(a, b) == IF a <= b THEN a ELSE b

\* variants without the max(1, ...) of lines 30-31, and with round() for int()
SampleWidthUnclamped(w)  == w \div 10
SampleHeightUnclamped(h) == h \div 20
StartXRounded(w)         == Max(0, (w * 9 + 5) \div 10)

\* variant: a band of 10% of the height, as far as 15%
SampleHeightTenth(h) == Max(1, h \div 10)

SampleWidth(w)  == Max(1, w \div 10)
SampleHeight(h) == Max(1, h \div 20)
StartX(w)       == Max(0, (w * 9) \div 10)
StartY(h)       == Max(0, h \div 20)

----------------------------------------------------------------------------
(* f"#{r:02X}{g:02X}{b:02X}", lines 54 and 61 *)

HexChars == <<"0", "1", "2", "3", "4", "5", "6", "7",
              "8", "9", "A", "B", "C", "D", "E", "F">>

RECURSIVE ToHexUpper(_)
ToHexUpper(n) ==
    IF n < 16 THEN <<HexChars[n + 1]>>
    ELSE ToHexUpper(n \div 16) \o <<HexChars[(n % 16) + 1]>>

RECURSIVE ZeroPad(_, _)
ZeroPad(s, minw) == IF Len(s) >= minw THEN s ELSE ZeroPad(<<"0">> \o s, minw)

\* variant: the format X without the 02
FormatX(n) == ToHexUpper(n)

Format02X(n) == ZeroPad(ToHexUpper(n), 2)

FormatHexColor(c) ==
    <<"#">> \o Format02X(c[1]) \o Format02X(c[2]) \o Format02X(c[3])

----------------------------------------------------------------------------
(* Counter(colors).most_common(1)[0][0], line 53 *)

\* variant: a >= 200
OpaqueFrom200(a) == a >= 200

\* line 48
Opaque(a) == a > 200

\* line 49: the element appended for a counted pixel
ColorOf(pixel) == <<pixel[1], pixel[2], pixel[3]>>

\* variant: a dict that puts a new key first
CounterAddFront(counter, k) ==
    IF \E j \in DOMAIN counter : counter[j][1] = k
    THEN [j \in DOMAIN counter |->
            IF counter[j][1] = k THEN <<k, counter[j][2] + 1>> ELSE counter[j]]
    ELSE <<<<k, 1>>>> \o counter

\* Counter.__init__ counting one element: a known key keeps its place in the
\* dict, a new key is inserted last
CounterAdd(counter, k) ==
    IF \E j \in DOMAIN counter : counter[j][1] = k
    THEN [j \in DOMAIN counter |->
            IF counter[j][1] = k THEN <<k, counter[j][2] + 1>> ELSE counter[j]]
    ELSE Append(counter, <<k, 1>>)

RECURSIVE CounterFrom(_, _, _)
CounterFrom(counter, cs, i) ==
    IF i > Len(cs) THEN counter
    ELSE CounterFrom(CounterAdd(counter, cs[i]), cs, i + 1)

\* Counter(colors).items(), in dict order
Counter(cs) == CounterFrom(<<>>, cs, 1)

\* variant: a later item of the same count replaces the best so far
ReplacesOnTie(item, best) == item[2] >= best[2]

\* max(): a later item replaces the best so far only if its key is greater
Replaces(item, best) == item[2] > best[2]

RECURSIVE MaxByCount(_, _, _)
MaxByCount(items, i, best) ==
    IF i > Len(items) THEN best
    ELSE MaxByCount(items, i + 1,
                    IF Replaces(items[i], best) THEN items[i] ELSE best)

\* variant: an unordered table, any item of the highest count
MostCommonAnyOfTied(items) ==
    {it \in {items[i] : i \in DOMAIN items} :
        \A j \in DOMAIN items : items[j][2] <= it[2]}

\* the items most_common(1) can return: heapq.nlargest(1, items, key=count)
\* is max(items, key=count), the first item of the highest count
MostCommon1(items) == {MaxByCount(items, 2, items[1])}

----------------------------------------------------------------------------
(* The call *)

NoColor == <<>>

NoFile == [exists |-> FALSE, bytes |-> <<>>]

\* Blender is not running
SceneNotLoaded ==
    /\ obj = [exists |-> FALSE, material_slots |-> <<>>]
    /\ materials = <<>>
    /\ node_groups = <<>>
    /\ color_hex = <<>>
    /\ idx = 0
    /\ updated_count = 0
    /\ assign_result = 0
    /\ materials_before = <<>>
    /\ node_groups_before = <<>>
    /\ bpy_pc = "off"

\* main is not running: only the function is called
MainNotStarted ==
    /\ platform = "posix"
    /\ args_threads_color = <<>>
    /\ config_threads_color = <<>>
    /\ patterns_dir = [exists |-> FALSE, names |-> {}, corrupt |-> {}]
    /\ render_script = NoFile
    /\ temp_script = NoFile
    /\ blender_found = FALSE
    /\ patterns_to_render = <<>>
    /\ pattern_index = 0
    /\ template_loaded = FALSE
    /\ original_script_content = <<>>
    /\ thread_color = <<>>
    /\ script_content = <<>>
    /\ raised = "none"
    /\ main_pc = "off"
    /\ launches = <<>>
    /\ script_at_first_read = <<>>
    /\ script_writes = 0

Init ==
    /\ MainNotStarted
    /\ SceneNotLoaded
    /\ image \in ContentImages \cup GeometryImages
    /\ pc = "idle"
    /\ outputs = <<>>
    /\ width = 0 /\ height = 0
    /\ sample_width = 0 /\ sample_height = 0
    /\ start_x = 0 /\ start_y = 0
    /\ sx = 0 /\ sy = 0
    /\ colors = <<>>
    /\ reads = <<>>
    /\ rgb = NoColor
    /\ hex_color = <<>>
    /\ path = "none"

\* lines 22-36: open, convert, size, rectangle, empty list
Open ==
    /\ pc = "idle"
    /\ Len(outputs) < MaxCalls
    /\ width' = image.w
    /\ height' = image.h
    /\ sample_width' = SampleWidth(image.w)
    /\ sample_height' = SampleHeight(image.h)
    /\ start_x' = StartX(image.w)
    /\ start_y' = StartY(image.h)
    /\ colors' = <<>>
    /\ sx' = 0 /\ sy' = 0
    /\ pc' = "scan"
    /\ UNCHANGED <<image, outputs, reads, rgb, hex_color, path>>
    /\ UNCHANGED <<main_vars, scene_vars>>

\* lines 38-49: one iteration of the inner loop
Scan ==
    /\ pc = "scan"
    /\ sy < sample_height /\ sx < sample_width
    /\ LET x == start_x + sx
           y == start_y + sy
       IN /\ reads' = Append(reads, <<x, y>>)
          /\ IF InBounds(image, x, y)
             THEN LET pixel == GetPixel(image, x, y)
                  IN /\ colors' = IF Opaque(pixel[4])
                                  THEN Append(colors, ColorOf(pixel))
                                  ELSE colors
                     /\ IF sx + 1 < sample_width
                        THEN sx' = sx + 1 /\ sy' = sy
                        ELSE sx' = 0 /\ sy' = sy + 1
                     /\ pc' = "scan"
             ELSE \* getpixel raises IndexError
                  /\ pc' = "error"
                  /\ UNCHANGED <<colors, sx, sy>>
    /\ UNCHANGED <<image, outputs, width, height, sample_width, sample_height,
                   start_x, start_y, rgb, hex_color, path>>
    /\ UNCHANGED <<main_vars, scene_vars>>

LoopDone == pc = "scan" /\ (sy >= sample_height \/ sample_width <= 0)

\* lines 52-54
SelectMostCommon ==
    /\ LoopDone
    /\ colors # <<>>
    /\ \E item \in MostCommon1(Counter(colors)) :
          /\ rgb' = item[1]
          /\ hex_color' = FormatHexColor(item[1])
    /\ path' = "most_common"
    /\ pc' = "return"
    /\ UNCHANGED <<image, outputs, width, height, sample_width, sample_height,
                   start_x, start_y, sx, sy, colors, reads>>
    /\ UNCHANGED <<main_vars, scene_vars>>

\* variant: the corner pixel of the row
FallbackXCorner(w, startx) == w - 1

\* line 57
FallbackX(w, startx) == Min(w - 1, startx)
\* line 58
FallbackY(h, starty) == starty

\* lines 55-61
Fallback ==
    /\ LoopDone
    /\ colors = <<>>
    /\ LET x == FallbackX(width, start_x)
           y == FallbackY(height, start_y)
       IN /\ reads' = Append(reads, <<x, y>>)
          /\ IF InBounds(image, x, y)
             THEN LET pixel == GetPixel(image, x, y)
                  IN /\ rgb' = <<pixel[1], pixel[2], pixel[3]>>
                     /\ hex_color' = FormatHexColor(<<pixel[1], pixel[2], pixel[3]>>)
                     /\ path' = "fallback"
                     /\ pc' = "return"
             ELSE /\ pc' = "error"
                  /\ UNCHANGED <<rgb, hex_color, path>>
    /\ UNCHANGED <<image, outputs, width, height, sample_width, sample_height,
                   start_x, start_y, sx, sy, colors>>
    /\ UNCHANGED <<main_vars, scene_vars>>

\* line 63: the string goes to the caller, the frame's locals are gone
Return ==
    /\ pc = "return"
    /\ outputs' = Append(outputs, hex_color)
    /\ pc' = "idle"
    /\ width' = 0 /\ height' = 0
    /\ sample_width' = 0 /\ sample_height' = 0
    /\ start_x' = 0 /\ start_y' = 0
    /\ sx' = 0 /\ sy' = 0
    /\ colors' = <<>>
    /\ reads' = <<>>
    /\ rgb' = NoColor
    /\ hex_color' = <<>>
    /\ path' = "none"
    /\ UNCHANGED image
    /\ UNCHANGED <<main_vars, scene_vars>>

Next == Open \/ Scan \/ SelectMostCommon \/ Fallback \/ Return

Spec == Init /\ [][Next]_vars

----------------------------------------------------------------------------
(* render_cli.main, lines 75-304: the batch over the patterns directory.   *)
(* File names and texts are sequences of one-character strings; a text or  *)
(* the bytes of a script are a sequence of such tokens.                    *)

\* the function as one value: what lines 22-63 return for a decodable image
ScanCoords(img) ==
    LET sw == SampleWidth(img.w)
        sh == SampleHeight(img.h)
    IN IF sw <= 0 \/ sh <= 0 THEN <<>>
       ELSE [k \in 1..(sw * sh) |->
                <<StartX(img.w) + ((k - 1) % sw), StartY(img.h) + ((k - 1) \div sw)>>]

RECURSIVE CollectColors(_, _, _, _)
CollectColors(img, coords, k, acc) ==
    IF k > Len(coords) THEN acc
    ELSE LET pixel == GetPixel(img, coords[k][1], coords[k][2])
         IN CollectColors(img, coords, k + 1,
                IF Opaque(pixel[4]) THEN Append(acc, ColorOf(pixel)) ELSE acc)

ExtractThreadColor(img) ==
    LET cs == CollectColors(img, ScanCoords(img), 1, <<>>)
    IN IF cs # <<>>
       THEN FormatHexColor((CHOOSE item \in MostCommon1(Counter(cs)) : TRUE)[1])
       ELSE LET pixel == GetPixel(img, FallbackX(img.w, StartX(img.w)),
                                       FallbackY(img.h, StartY(img.h)))
            IN FormatHexColor(<<pixel[1], pixel[2], pixel[3]>>)

\* ord() of the characters of the modelled file names
Ord(ch) ==
    CASE ch = "." -> 46  [] ch = "A" -> 65  [] ch = "B" -> 66
      [] ch = "a" -> 97  [] ch = "g" -> 103 [] ch = "n" -> 110
      [] ch = "o" -> 111 [] ch = "p" -> 112 [] ch = "t" -> 116
      [] ch = "x" -> 120

\* str.__lt__: by code point, a proper prefix first
RECURSIVE StrLess(_, _)
StrLess(a, b) ==
    IF a = <<>> THEN b # <<>>
    ELSE IF b = <<>> THEN FALSE
    ELSE IF a[1] = b[1] THEN StrLess(Tail(a), Tail(b))
    ELSE Ord(a[1]) < Ord(b[1])

\* sorted(...) of a set of distinct strings
RECURSIVE Sorted(_)
Sorted(S) ==
    IF S = {} THEN <<>>
    ELSE LET least == CHOOSE a \in S : \A b \in S : a = b \/ StrLess(a, b)
         IN <<least>> \o Sorted(S \ {least})

DotPng == <<".", "p", "n", "g">>

EndsWith(name, suffix) ==
    /\ Len(name) >= Len(suffix)
    /\ SubSeq(name, Len(name) - Len(suffix) + 1, Len(name)) = suffix

\* patterns_dir.glob('*.png'), line 160
GlobPng(names) == {n \in names : EndsWith(n, DotPng)}

\* os.path.splitext(pattern_name)[0] of a name that ends in .png, line 242
SplitExtBase(name) == SubSeq(name, 1, Len(name) - Len(DotPng))

FileA     == <<"A", ".", "p", "n", "g">>
FileB     == <<"B", ".", "p", "n", "g">>
FileLower == <<"a", ".", "p", "n", "g">>
FileNotes == <<"n", "o", "t", "e", "s", ".", "t", "x", "t">>

FileNames == {FileA, FileB, FileLower, FileNotes}

\* the picture each pattern file holds when it can be decoded
PatternImage(name) ==
    [w |-> 1, h |-> 1, block |-> NoBlock,
     data |-> [i \in 1..Period |->
                 IF name = FileA THEN Red255
                 ELSE IF name = FileB THEN Blue255 ELSE Clear]]

PatternPlaceholder     == <<"__PATTERN_PLACEHOLDER__">>
PatternBasePlaceholder == <<"__PATTERN_BASE_PLACEHOLDER__">>
ThreadsPlaceholder     == <<"__THREADS_COLOR_PLACEHOLDER__">>
LF   == <<"\n">>
CRLF == <<"\r\n">>
CR   == <<"\r">>

\* render_rashguard.py with each line ending
TemplateBytes(eol) ==
    <<PatternPlaceholder, eol, PatternBasePlaceholder, eol, ThreadsPlaceholder, eol>>

\* a script left by an earlier run
StaleScript == [exists |-> TRUE, bytes |-> <<FileA, LF>>]

\* os.linesep
LineSep(os) == IF os = "nt" THEN CRLF ELSE LF

\* f.read() of a file opened in text mode: universal newlines
ReadText(bytes) ==
    [i \in DOMAIN bytes |-> IF bytes[i] \in {CRLF, CR} THEN LF ELSE bytes[i]]

\* f.write(text) of a file opened in text mode: "\n" becomes os.linesep
WriteText(text, os) ==
    [i \in DOMAIN text |-> IF text[i] = LF THEN LineSep(os) ELSE text[i]]

\* str.replace(old, new)
Replace(text, old, new) ==
    [i \in DOMAIN text |-> IF text[i] = old THEN new ELSE text[i]]

\* lines 243-254, for the placeholders of the pattern and of the colour
FillPlaceholders(text, name, color) ==
    Replace(Replace(Replace(text, PatternPlaceholder, name),
                    PatternBasePlaceholder, SplitExtBase(name)),
            ThreadsPlaceholder, color)

ArgGreen    == <<"#", "0", "0", "F", "F", "0", "0">>
ConfigWhite == <<"#", "F", "F", "F", "F", "F", "F">>

CallIdle ==
    /\ image = PatternImage(FileA)
    /\ pc = "idle"
    /\ outputs = <<>>
    /\ width = 0 /\ height = 0
    /\ sample_width = 0 /\ sample_height = 0
    /\ start_x = 0 /\ start_y = 0
    /\ sx = 0 /\ sy = 0
    /\ colors = <<>>
    /\ reads = <<>>
    /\ rgb = NoColor
    /\ hex_color = <<>>
    /\ path = "none"

InitMain ==
    /\ CallIdle
    /\ SceneNotLoaded
    /\ platform \in {"posix", "nt"}
    /\ args_threads_color \in {<<>>, ArgGreen}
    /\ config_threads_color = ConfigWhite
    /\ \E names \in SUBSET FileNames :
          \E bad \in SUBSET GlobPng(names) :
             patterns_dir \in {[exists |-> TRUE, names |-> names, corrupt |-> bad],
                               [exists |-> FALSE, names |-> {}, corrupt |-> {}]}
    /\ render_script \in {NoFile,
                          [exists |-> TRUE, bytes |-> <<>>],
                          [exists |-> TRUE, bytes |-> TemplateBytes(LF)],
                          [exists |-> TRUE, bytes |-> TemplateBytes(CRLF)]}
    /\ temp_script \in {NoFile, StaleScript}
    /\ blender_found \in BOOLEAN
    /\ patterns_to_render = <<>>
    /\ pattern_index = 0
    /\ template_loaded = FALSE
    /\ original_script_content = <<>>
    /\ thread_color = <<>>
    /\ script_content = <<>>
    /\ raised = "none"
    /\ main_pc = "args"
    /\ launches = <<>>
    /\ script_at_first_read = <<>>
    /\ script_writes = 0

\* lines 122-123
ParseArgs ==
    /\ main_pc = "args"
    /\ config_threads_color' =
          IF args_threads_color # <<>> THEN args_threads_color
          ELSE config_threads_color
    /\ main_pc' = "patterns"
    /\ UNCHANGED <<platform, args_threads_color, patterns_dir, render_script,
                   temp_script, blender_found, patterns_to_render, pattern_index,
                   template_loaded, original_script_content, thread_color,
                   script_content, raised, launches, script_at_first_read,
                   script_writes>>
    /\ UNCHANGED <<call_vars, scene_vars>>

\* lines 159-213: the sorted patterns, then Blender and the blend file
FindPatterns ==
    /\ main_pc = "patterns"
    /\ IF patterns_dir.exists /\ GlobPng(patterns_dir.names) # {} /\ blender_found
       THEN /\ patterns_to_render' = Sorted(GlobPng(patterns_dir.names))
            /\ main_pc' = "for"
       ELSE \* sys.exit(1) at line 163, 166, 205 or 211
            /\ patterns_to_render' =
                  IF patterns_dir.exists THEN Sorted(GlobPng(patterns_dir.names))
                  ELSE <<>>
            /\ main_pc' = "exit"
    /\ UNCHANGED <<platform, args_threads_color, config_threads_color, patterns_dir,
                   render_script, temp_script, blender_found, pattern_index,
                   template_loaded, original_script_content, thread_color,
                   script_content, raised, launches, script_at_first_read,
                   script_writes>>
    /\ UNCHANGED <<call_vars, scene_vars>>

pattern_name == patterns_to_render[pattern_index]

\* line 220: the next pattern, or the end of the loop
ForNext ==
    /\ main_pc = "for"
    /\ IF pattern_index < Len(patterns_to_render)
       THEN pattern_index' = pattern_index + 1 /\ main_pc' = "template"
       ELSE pattern_index' = pattern_index /\ main_pc' = "finally"
    /\ UNCHANGED <<platform, args_threads_color, config_threads_color, patterns_dir,
                   render_script, temp_script, blender_found, patterns_to_render,
                   template_loaded, original_script_content, thread_color,
                   script_content, raised, launches, script_at_first_read,
                   script_writes>>
    /\ UNCHANGED <<call_vars, scene_vars>>

\* lines 224-228
LoadTemplate ==
    /\ main_pc = "template"
    /\ IF template_loaded
       THEN /\ script_content' = original_script_content
            /\ main_pc' = "extract"
            /\ UNCHANGED <<template_loaded, original_script_content, raised,
                           script_at_first_read>>
       ELSE IF render_script.exists
       THEN /\ template_loaded' = TRUE
            /\ original_script_content' = ReadText(render_script.bytes)
            /\ script_content' = ReadText(render_script.bytes)
            /\ script_at_first_read' = render_script.bytes
            /\ main_pc' = "extract"
            /\ UNCHANGED raised
       ELSE \* open() raises FileNotFoundError
            /\ raised' = "FileNotFoundError"
            /\ main_pc' = "finally"
            /\ UNCHANGED <<template_loaded, original_script_content,
                           script_content, script_at_first_read>>
    /\ UNCHANGED <<platform, args_threads_color, config_threads_color, patterns_dir,
                   render_script, temp_script, blender_found, patterns_to_render,
                   pattern_index, thread_color, launches, script_writes>>
    /\ UNCHANGED <<call_vars, scene_vars>>

\* lines 237-238
ExtractColor ==
    /\ main_pc = "extract"
    /\ IF pattern_name \in patterns_dir.corrupt
       THEN \* Image.open raises at line 22
            /\ raised' = "UnidentifiedImageError"
            /\ main_pc' = "finally"
            /\ UNCHANGED thread_color
       ELSE /\ thread_color' = ExtractThreadColor(PatternImage(pattern_name))
            /\ main_pc' = "write"
            /\ UNCHANGED raised
    /\ UNCHANGED <<platform, args_threads_color, config_threads_color, patterns_dir,
                   render_script, temp_script, blender_found, patterns_to_render,
                   pattern_index, template_loaded, original_script_content,
                   script_content, launches, script_at_first_read, script_writes>>
    /\ UNCHANGED <<call_vars, scene_vars>>

\* the colour line 254 puts in the script
ThreadsColorForScript(extracted, configured) == extracted

\* lines 240-258: fill the placeholders, write .render_temp.py
WriteTempScript ==
    /\ main_pc = "write"
    /\ script_content' =
          FillPlaceholders(script_content, pattern_name,
                           ThreadsColorForScript(thread_color, config_threads_color))
    /\ \E written \in BOOLEAN :
          IF written
          THEN /\ temp_script' = [exists |-> TRUE,
                                  bytes |-> WriteText(script_content', platform)]
               /\ main_pc' = "run"
               /\ UNCHANGED raised
          ELSE \* open() or write() raises OSError, the file left as it is or cut
               /\ temp_script' \in {temp_script, [exists |-> TRUE, bytes |-> <<>>]}
               /\ raised' = "OSError"
               /\ main_pc' = "finally"
    /\ UNCHANGED <<platform, args_threads_color, config_threads_color, patterns_dir,
                   render_script, blender_found, patterns_to_render, pattern_index,
                   template_loaded, original_script_content, thread_color, launches,
                   script_at_first_read, script_writes>>
    /\ UNCHANGED <<call_vars, scene_vars>>

\* lines 279-286: both branches print and fall to the next iteration
AfterReturnCode(returncode) == "for"

\* lines 273-286
RunBlender ==
    /\ main_pc = "run"
    /\ \E outcome \in {"0", "1", "OSError"} :
          IF outcome = "OSError"
          THEN \* subprocess.run raises
               /\ raised' = "OSError"
               /\ main_pc' = "finally"
               /\ UNCHANGED launches
          ELSE /\ launches' = Append(launches,
                      [pattern |-> pattern_name, script |-> temp_script.bytes,
                       returncode |-> outcome])
               /\ main_pc' = AfterReturnCode(outcome)
               /\ UNCHANGED raised
    /\ UNCHANGED <<platform, args_threads_color, config_threads_color, patterns_dir,
                   render_script, temp_script, blender_found, patterns_to_render,
                   pattern_index, template_loaded, original_script_content,
                   thread_color, script_content, script_at_first_read, script_writes>>
    /\ UNCHANGED <<call_vars, scene_vars>>

\* lines 291-304: cleanup, then the exception goes on or the summary is printed
Finally ==
    /\ main_pc = "finally"
    /\ temp_script' = NoFile
    /\ IF template_loaded /\ original_script_content # <<>>
       THEN /\ render_script' =
                  [exists |-> TRUE, bytes |-> WriteText(original_script_content, platform)]
            /\ script_writes' = script_writes + 1
       ELSE UNCHANGED <<render_script, script_writes>>
    /\ main_pc' = IF raised = "none" THEN "done" ELSE "raised"
    /\ UNCHANGED <<platform, args_threads_color, config_threads_color, patterns_dir,
                   blender_found, patterns_to_render, pattern_index, template_loaded,
                   original_script_content, thread_color, script_content, raised,
                   launches, script_at_first_read>>
    /\ UNCHANGED <<call_vars, scene_vars>>

NextMain ==
    \/ ParseArgs \/ FindPatterns \/ ForNext \/ LoadTemplate
    \/ ExtractColor \/ WriteTempScript \/ RunBlender \/ Finally

SpecMain == InitMain /\ [][NextMain]_vars

----------------------------------------------------------------------------
(* The generated script inside Blender (.render_temp.py): main assigns the  *)
(* pattern image to the Rashguard materials and then colours the thread     *)
(* materials. Materials and node groups are datablocks: a slot or a GROUP   *)
(* node holds a reference, so one datablock can be reached from many slots. *)
(* One step of a loop over the slots is one action.                         *)

\* the image load_pattern returned (line 296) and the one the file was saved with
pattern_image == "pattern"
OldImage      == "old"

\* a colour socket value (r, g, b, a), each component in 255ths
OldColor == <<128, 128, 128, 255>>

\* nodes: [type, image, has_color ('Color' in node.inputs), color, node_tree]
TexImage ==
    [type |-> "TEX_IMAGE", image |-> OldImage, has_color |-> FALSE,
     color |-> <<>>, node_tree |-> "none"]
Diffuse ==
    [type |-> "BSDF_DIFFUSE", image |-> "none", has_color |-> TRUE,
     color |-> OldColor, node_tree |-> "none"]
HueSat ==
    [type |-> "HUE_SAT", image |-> "none", has_color |-> TRUE,
     color |-> OldColor, node_tree |-> "none"]
GroupNode ==
    [type |-> "GROUP", image |-> "none", has_color |-> TRUE,
     color |-> OldColor, node_tree |-> "Fabric"]
Principled ==
    [type |-> "BSDF_PRINCIPLED", image |-> "none", has_color |-> FALSE,
     color |-> <<>>, node_tree |-> "none"]
OutputMaterial ==
    [type |-> "OUTPUT_MATERIAL", image |-> "none", has_color |-> FALSE,
     color |-> <<>>, node_tree |-> "none"]

\* the tree Blender builds when use_nodes is first set on a material without one
DefaultNodes == <<Principled, OutputMaterial>>

MaterialNames == {"Body", "Thread"}
GroupNames    == {"Fabric"}
\* node trees of a material; the empty one with use_nodes off is no tree at all
NodeTrees     == {<<>>, <<TexImage, Diffuse>>, <<TexImage, GroupNode>>}
FabricNodes   == <<TexImage, HueSat>>

\* the slots of the object: the first seven, the thread slots, the ones after
SlotCounts == {7, 8, 13}
Layout(n, low, thread, high) ==
    [i \in 1..n |-> IF i <= 7 THEN low ELSE IF i <= 12 THEN thread ELSE high]
Layouts ==
    {Layout(n, low, thread, high) :
        n \in SlotCounts, low \in {"Body", "none"},
        thread \in {"Body", "Thread", "none"}, high \in {"Thread", "none"}}

NoneText == <<"N", "o", "n", "e">>
BadHex   == <<"#", "G", "G", "0", "0", "0", "0">>
ScriptColors == {<<>>, NoneText, ArgGreen, BadHex}

\* str.lstrip('#'), line 73
RECURSIVE Lstrip(_)
Lstrip(s) == IF s # <<>> /\ Head(s) = "#" THEN Lstrip(Tail(s)) ELSE s

\* s[a:b]
Slice(s, a, b) == SubSeq(s, a + 1, Min(b, Len(s)))

\* int(s, 16) of upper-case digits; IsHex is where it does not raise
IsHex(s) == s # <<>> /\ \A i \in DOMAIN s : \E d \in DOMAIN HexChars : HexChars[d] = s[i]
RECURSIVE Int16(_)
Int16(s) ==
    IF s = <<>> THEN 0
    ELSE 16 * Int16(SubSeq(s, 1, Len(s) - 1))
         + (CHOOSE d \in DOMAIN HexChars : HexChars[d] = s[Len(s)]) - 1

\* lines 72-80: color_rgba, or <<>> where the conversion raises
ColorRgba(hex) ==
    LET hex_str == Lstrip(hex)
        r == Slice(hex_str, 0, 2)
        g == Slice(hex_str, 2, 4)
        b == Slice(hex_str, 4, 6)
    IN  IF IsHex(r) /\ IsHex(g) /\ IsHex(b)
        THEN <<Int16(r), Int16(g), Int16(b), 255>>
        ELSE <<>>

\* lines 58-61 on the nodes of one material
SetImage(nodes, img) ==
    [i \in DOMAIN nodes |->
        IF nodes[i].type = "TEX_IMAGE" THEN [nodes[i] EXCEPT !.image = img]
        ELSE nodes[i]]
CountTexImage(nodes) ==
    Cardinality({i \in DOMAIN nodes : nodes[i].type = "TEX_IMAGE"})

\* lines 99-130 on a list of nodes: every 'Color' input is set
SetColor(nodes, rgba) ==
    [i \in DOMAIN nodes |->
        IF nodes[i].has_color THEN [nodes[i] EXCEPT !.color = rgba]
        ELSE nodes[i]]
CountColor(nodes) ==
    Cardinality({i \in DOMAIN nodes : nodes[i].has_color})

\* the node groups the GROUP nodes of a tree refer to (lines 112-113)
GroupsOf(nodes) ==
    {nodes[i].node_tree : i \in {j \in DOMAIN nodes : nodes[j].type = "GROUP"}}
        \ {"none"}

\* the 'Color' inputs lines 113-117 set inside the groups of a tree
RECURSIVE CountInside(_, _)
CountInside(nodes, groups) ==
    IF nodes = <<>> THEN 0
    ELSE (IF Head(nodes).type = "GROUP" /\ Head(nodes).node_tree # "none"
          THEN CountColor(groups[Head(nodes).node_tree]) ELSE 0)
         + CountInside(Tail(nodes), groups)

\* range(7, min(12, len(obj.material_slots))), line 89
ThreadRangeEnd(slots) == Min(12, Len(slots))

InitScene ==
    /\ CallIdle
    /\ MainNotStarted
    /\ obj \in {[exists |-> TRUE, material_slots |-> l] : l \in Layouts}
               \cup {[exists |-> FALSE, material_slots |-> <<>>]}
    /\ materials \in [MaterialNames -> {[use_nodes |-> u, nodes |-> t] :
                                           u \in BOOLEAN, t \in NodeTrees}]
    /\ node_groups = [g \in GroupNames |-> FabricNodes]
    /\ color_hex \in ScriptColors
    /\ idx = 0
    /\ updated_count = 0
    /\ assign_result = 0
    /\ materials_before = materials
    /\ node_groups_before = node_groups
    /\ bpy_pc = "assign"

\* lines 47-49: the object is missing, main prints the error and exits
AssignRaise ==
    /\ bpy_pc = "assign"
    /\ ~obj.exists
    /\ bpy_pc' = "error"
    /\ UNCHANGED <<obj, materials, node_groups, color_hex, idx, updated_count,
                   assign_result, materials_before, node_groups_before>>
    /\ UNCHANGED <<call_vars, main_vars>>

\* lines 52-61: one slot of the loop over obj.material_slots
AssignSlot ==
    /\ bpy_pc = "assign"
    /\ obj.exists
    /\ idx < Len(obj.material_slots)
    /\ LET mat == obj.material_slots[idx + 1]
       IN  IF mat = "none" \/ ~materials[mat].use_nodes
           THEN UNCHANGED <<materials, updated_count>>
           ELSE /\ materials' =
                      [materials EXCEPT
                          ![mat].nodes = SetImage(@, pattern_image)]
                /\ updated_count' =
                      updated_count + CountTexImage(materials[mat].nodes)
    /\ idx' = idx + 1
    /\ UNCHANGED <<obj, node_groups, color_hex, assign_result, materials_before,
                   node_groups_before, bpy_pc>>
    /\ UNCHANGED <<call_vars, main_vars>>

\* lines 63-64
AssignReturn ==
    /\ bpy_pc = "assign"
    /\ obj.exists
    /\ idx = Len(obj.material_slots)
    /\ assign_result' = updated_count
    /\ bpy_pc' = "apply"
    /\ UNCHANGED <<obj, materials, node_groups, color_hex, idx, updated_count,
                   materials_before, node_groups_before>>
    /\ UNCHANGED <<call_vars, main_vars>>

\* lines 68-87: the early returns of apply_threads_color, or the loop begins
ApplyEnter ==
    /\ bpy_pc = "apply"
    /\ materials_before' = materials
    /\ node_groups_before' = node_groups
    /\ IF \/ color_hex = <<>>
          \/ color_hex = NoneText
          \/ ColorRgba(color_hex) = <<>>
          \/ ~obj.exists
       THEN /\ bpy_pc' = "applied"
            /\ UNCHANGED <<idx, updated_count>>
       ELSE /\ bpy_pc' = "threads"
            /\ idx' = 7
            /\ updated_count' = 0
    /\ UNCHANGED <<obj, materials, node_groups, color_hex, assign_result>>
    /\ UNCHANGED <<call_vars, main_vars>>

\* lines 89-130: one slot of the loop over the thread slots
ApplySlot ==
    /\ bpy_pc = "threads"
    /\ idx < ThreadRangeEnd(obj.material_slots)
    /\ LET mat  == obj.material_slots[idx + 1]
           rgba == ColorRgba(color_hex)
       IN  IF mat = "none"
           THEN UNCHANGED <<materials, node_groups, updated_count>>
           ELSE LET tree == IF ~materials[mat].use_nodes
                               /\ materials[mat].nodes = <<>>
                            THEN DefaultNodes
                            ELSE materials[mat].nodes
                IN  /\ materials' =
                          [materials EXCEPT
                              ![mat] = [use_nodes |-> TRUE,
                                        nodes |-> SetColor(tree, rgba)]]
                    /\ node_groups' =
                          [g \in DOMAIN node_groups |->
                              IF g \in GroupsOf(tree)
                              THEN SetColor(node_groups[g], rgba)
                              ELSE node_groups[g]]
                    /\ updated_count' =
                          updated_count + CountColor(tree)
                              + CountInside(tree, node_groups)
    /\ idx' = idx + 1
    /\ UNCHANGED <<obj, color_hex, assign_result, materials_before,
                   node_groups_before, bpy_pc>>
    /\ UNCHANGED <<call_vars, main_vars>>

\* lines 132-133
ApplyReturn ==
    /\ bpy_pc = "threads"
    /\ idx >= ThreadRangeEnd(obj.material_slots)
    /\ bpy_pc' = "applied"
    /\ UNCHANGED <<obj, materials, node_groups, color_hex, idx, updated_count,
                   assign_result, materials_before, node_groups_before>>
    /\ UNCHANGED <<call_vars, main_vars>>

NextScene ==
    \/ AssignRaise \/ AssignSlot \/ AssignReturn
    \/ ApplyEnter \/ ApplySlot \/ ApplyReturn

SpecScene == InitScene /\ [][NextScene]_vars

----------------------------------------------------------------------------
(* Vocabulary of the properties: the sample rectangle and the pixels of an *)
(* image as the specification describes them, and the reading of a         *)
(* returned string.                                                        *)

Range(s) == {s[i] : i \in DOMAIN s}

\* the rectangle of an image, row by row, left to right
RectCoords(img) ==
    LET x0 == (img.w * 9) \div 10
        y0 == img.h \div 20
        rw == IF img.w \div 10 >= 1 THEN img.w \div 10 ELSE 1
        rh == IF img.h \div 20 >= 1 THEN img.h \div 20 ELSE 1
    IN [k \in 1..(rw * rh) |-> <<x0 + ((k - 1) % rw), y0 + ((k - 1) \div rw)>>]

PixelsAt(img, coords) ==
    [k \in DOMAIN coords |-> GetPixel(img, coords[k][1], coords[k][2])]

\* the (R,G,B) of the pixels of a sequence whose alpha exceeds 200, in order
CountedColors(pixels) ==
    LET IsCounted(p) == p[4] > 200
        kept == SelectSeq(pixels, IsCounted)
    IN [k \in DOMAIN kept |-> <<kept[k][1], kept[k][2], kept[k][3]>>]

RectColors(img) == CountedColors(PixelsAt(img, RectCoords(img)))

Occurrences(cs, c) == Cardinality({i \in DOMAIN cs : cs[i] = c})
FirstIndex(cs, c) == CHOOSE i \in DOMAIN cs :
                        cs[i] = c /\ \A j \in DOMAIN cs : cs[j] = c => i <= j
LastIndex(cs, c) == CHOOSE i \in DOMAIN cs :
                        cs[i] = c /\ \A j \in DOMAIN cs : cs[j] = c => j <= i

\* the colours of the highest count
Tied(cs) == {c \in Range(cs) :
                \A d \in Range(cs) : Occurrences(cs, d) <= Occurrences(cs, c)}

UpperHexDigits == {"0", "1", "2", "3", "4", "5", "6", "7",
                   "8", "9", "A", "B", "C", "D", "E", "F"}

WellFormedHex(s) ==
    /\ Len(s) = 7
    /\ s[1] = "#"
    /\ \A i \in 2..7 : s[i] \in UpperHexDigits

DigitValue(ch) ==
    IF ch \in UpperHexDigits
    THEN CHOOSE v \in 0..15 : HexChars[v + 1] = ch
    ELSE -1

\* the (R,G,B) a string denotes; <<>> for a string that is not #RRGGBB
DecodeHex(s) ==
    IF WellFormedHex(s)
    THEN <<16 * DigitValue(s[2]) + DigitValue(s[3]),
           16 * DigitValue(s[4]) + DigitValue(s[5]),
           16 * DigitValue(s[6]) + DigitValue(s[7])>>
    ELSE <<>>

Returning == pc = "return"

----------------------------------------------------------------------------
(* C1: when the sample rectangle holds a pixel of alpha > 200, the string  *)
(* returned denotes the (R,G,B) that occurs most often among those pixels, *)
(* and among the triples of the highest count the one seen first in the    *)
(* row-major traversal.                                                    *)
C1_MostFrequentFirstSeen ==
    (Returning /\ RectColors(image) # <<>>) =>
        LET cs == RectColors(image)
            got == DecodeHex(hex_color)
        IN /\ got \in Range(cs)
           /\ \A d \in Range(cs) : Occurrences(cs, d) <= Occurrences(cs, got)
           /\ \A d \in Range(cs) :
                 Occurrences(cs, d) = Occurrences(cs, got)
                    => FirstIndex(cs, got) <= FirstIndex(cs, d)

\* the 20x20 scenario: red then blue in the rectangle, #FF0000 returned
C1_Witness ==
    /\ Returning
    /\ image.w = 20 /\ image.h = 20
    /\ PixelsAt(image, RectCoords(image)) = <<Red255, Blue255>>
    /\ hex_color = <<"#", "F", "F", "0", "0", "0", "0">>

(* C2 as claimed: among the colours tied for the highest count, the one    *)
(* returned is the one whose running count reached that count first, that  *)
(* is, whose last occurrence comes first.                                  *)
C2_FirstToReachMaximum ==
    (Returning /\ RectColors(image) # <<>>) =>
        LET cs == RectColors(image)
            got == DecodeHex(hex_color)
        IN /\ got \in Tied(cs)
           /\ \A d \in Tied(cs) : LastIndex(cs, got) <= LastIndex(cs, d)

(* C2, amended: when several colours are tied for the highest count, the   *)
(* one returned is the tied colour inserted first: no tied colour occurs   *)
(* in the traversal before the first occurrence of the returned one.       *)
C2_TieBrokenByInsertionOrder ==
    (Returning /\ Cardinality(Tied(RectColors(image))) >= 2) =>
        LET cs == RectColors(image)
            got == DecodeHex(hex_color)
        IN /\ got \in Tied(cs)
           /\ \A i \in DOMAIN cs :
                 (cs[i] \in Tied(cs) /\ cs[i] # got) =>
                    \E j \in 1..(i - 1) : cs[j] = got

\* A,B,B,A: the first-seen colour reaches the count 2 last, and is returned
C2_Witness ==
    /\ Returning
    /\ image.w = 21 /\ image.h = 40
    /\ RectColors(image) = <<<<255, 0, 0>>, <<0, 0, 255>>,
                             <<0, 0, 255>>, <<255, 0, 0>>>>
    /\ hex_color = <<"#", "F", "F", "0", "0", "0", "0">>

(* C3: when no pixel of the sample rectangle has alpha > 200, the string   *)
(* returned denotes the R,G,B of the pixel at (min(width-1, start_x),      *)
(* start_y), whatever its alpha.                                           *)
C3_FallbackPixel ==
    (Returning /\ RectColors(image) = <<>>) =>
        LET fx == IF image.w - 1 <= (image.w * 9) \div 10
                  THEN image.w - 1 ELSE (image.w * 9) \div 10
            fy == image.h \div 20
            p == GetPixel(image, fx, fy)
        IN /\ path = "fallback"
           /\ DecodeHex(hex_color) = <<p[1], p[2], p[3]>>

\* the transparent 50x50 scenario: pixel (45,2) = (10,20,30,0), #0A141E
C3_Witness ==
    /\ Returning
    /\ image.w = 50 /\ image.h = 50
    /\ \A i \in DOMAIN image.data : image.data[i] = Clear
    /\ reads[Len(reads)] = <<45, 2>>
    /\ hex_color = <<"#", "0", "A", "1", "4", "1", "E">>

(* C4: every coordinate handed to getpixel, in the scan and in the         *)
(* fallback, lies in [0, width) x [0, height), so no read fails.           *)
C4_ReadsInsideImage ==
    /\ pc # "error"
    /\ \A i \in DOMAIN reads :
          /\ 0 <= reads[i][1] /\ reads[i][1] < image.w
          /\ 0 <= reads[i][2] /\ reads[i][2] < image.h

\* a 3x2 rectangle scanned to its last column and row, then the fallback read
C4_Witness ==
    /\ Returning /\ path = "fallback"
    /\ image.w = 30 /\ image.h = 40
    /\ Len(reads) = 7
    /\ reads[6] = <<29, 3>>

(* C5: every string returned, on the most-frequent path and on the         *)
(* fallback path, is '#' and six uppercase hexadecimal digits, two per     *)
(* channel in the order R, G, B, denoting the chosen colour.               *)
C5_HexFormat ==
    /\ Returning =>
          /\ WellFormedHex(hex_color)
          /\ Len(rgb) = 3
          /\ DecodeHex(hex_color) = rgb
    /\ \A i \in DOMAIN outputs : WellFormedHex(outputs[i])

\* a second call returning after a first: channels below 16 are zero-padded
C5_Witness ==
    /\ Returning /\ path = "most_common"
    /\ Len(outputs) = 1
    /\ outputs[1] = <<"#", "0", "0", "0", "0", "F", "F">>
    /\ hex_color = outputs[1]

(* C6: during the scan the list of counted colours is exactly the R,G,B    *)
(* of the pixels read so far whose alpha is strictly greater than 200, in  *)
(* reading order, the alpha dropped.                                       *)
C6_CountedIffAlphaAbove200 ==
    (pc = "scan") => colors = CountedColors(PixelsAt(image, reads))

\* alpha 255 and 201 counted as one colour, alpha 200 skipped
C6_Witness ==
    /\ pc = "scan"
    /\ PixelsAt(image, reads) = <<Red255, Blue200, Red201>>
    /\ colors = <<<<255, 0, 0>>, <<255, 0, 0>>>>

(* C7 as claimed: for a 1x1 image the result is produced by the fallback   *)
(* path, whatever the RGBA value of the pixel.                             *)
C7_OneByOneAlwaysFallback ==
    (Returning /\ image.w = 1 /\ image.h = 1) =>
        /\ path = "fallback"
        /\ Range(reads) = {<<0, 0>>}

(* C7, amended: for a 1x1 image no read fails, the only pixel read is      *)
(* (0,0), the string returned denotes the R,G,B of that pixel for every    *)
(* RGBA value, and it is produced by the fallback path exactly when the    *)
(* alpha of the pixel is at most 200 (by the most-frequent path otherwise).*)
C7_OneByOne ==
    (image.w = 1 /\ image.h = 1) =>
        /\ pc # "error"
        /\ Range(reads) \subseteq {<<0, 0>>}
        /\ Returning =>
              LET p == GetPixel(image, 0, 0)
              IN /\ Range(reads) = {<<0, 0>>}
                 /\ DecodeHex(hex_color) = <<p[1], p[2], p[3]>>
                 /\ (path = "fallback") <=> (p[4] <= 200)
                 /\ (path = "most_common") <=> (p[4] > 200)

\* a 1x1 image of an opaque pixel returns by the most-frequent path
C7_Witness ==
    /\ Returning
    /\ image.w = 1 /\ image.h = 1
    /\ GetPixel(image, 0, 0) = Red201
    /\ path = "most_common"
    /\ reads = << <<0, 0>> >>
    /\ hex_color = <<"#", "F", "F", "0", "0", "0", "0">>

(* C8: for every image of width >= 1 and height >= 1 the sample dimensions *)
(* are at least 1: sample_width is floor(width / 10) and sample_height is  *)
(* floor(height / 20), each raised to 1 when that floor is 0.              *)
C8_SampleDimensionsPositive ==
    (pc \in {"scan", "return"}) =>
        /\ image.w >= 1 /\ image.h >= 1
        /\ sample_width >= 1 /\ sample_height >= 1
        /\ IF image.w < 10 THEN sample_width = 1
           ELSE 10 * sample_width <= image.w /\ image.w < 10 * (sample_width + 1)
        /\ IF image.h < 20 THEN sample_height = 1
           ELSE 20 * sample_height <= image.h /\ image.h < 20 * (sample_height + 1)

\* a width below 10 clamped to 1 beside a height whose floor is 2
C8_Witness ==
    /\ pc = "scan"
    /\ image.w = 7 /\ image.h = 40
    /\ sample_width = 1 /\ sample_height = 2
    /\ Len(reads) = 2

(* C9 as claimed: the region scanned spans from (90% of width, 5% of       *)
(* height) to (100% of width, 15% of height): once the scan is over, every *)
(* row of the band from 5% to 15% of the height and every column from 90%  *)
(* of the width on has been read.  Stated for the sizes where these        *)
(* percentages are whole pixels.                                           *)
C9_RowsCoverFiveToFifteenPercent ==
    (pc = "scan" /\ sy >= sample_height
        /\ image.w % 10 = 0 /\ image.h % 20 = 0) =>
        /\ \A y \in ((image.h * 5) \div 100)..(((image.h * 15) \div 100) - 1) :
              \E i \in DOMAIN reads : reads[i][2] = y
        /\ \A x \in ((image.w * 9) \div 10)..(image.w - 1) :
              \E i \in DOMAIN reads : reads[i][1] = x

(* C10: every call on the same file returns the same string, no step of a  *)
(* call changes the image, and between calls no local of the last call is  *)
(* left behind.                                                            *)
C10_DeterministicNoSideEffects ==
    [][ /\ image' = image
        /\ \A i \in DOMAIN outputs' : outputs'[i] = outputs'[1]
        /\ (pc' = "idle") =>
              /\ colors' = <<>> /\ reads' = <<>>
              /\ rgb' = <<>> /\ hex_color' = <<>> /\ path' = "none"
      ]_vars

\* two calls done on an image whose rectangle holds a tie
C10_Witness ==
    /\ pc = "idle"
    /\ Len(outputs) = 2
    /\ outputs[1] = outputs[2]
    /\ Cardinality(Tied(RectColors(image))) = 2

----------------------------------------------------------------------------
(* Two files of one size that agree on the sample rectangle: between two   *)
(* calls the file is replaced by one that differs from it in a block.      *)

AgreeOnRectangle(a, b) ==
    /\ a.w = b.w /\ a.h = b.h
    /\ LET rect == RectCoords(a)
       IN \A k \in DOMAIN rect :
             GetPixel(a, rect[k][1], rect[k][2]) = GetPixel(b, rect[k][1], rect[k][2])

InitTwin ==
    /\ MainNotStarted
    /\ SceneNotLoaded
    /\ image \in TwinImages
    /\ pc = "idle"
    /\ outputs = <<>>
    /\ width = 0 /\ height = 0
    /\ sample_width = 0 /\ sample_height = 0
    /\ start_x = 0 /\ start_y = 0
    /\ sx = 0 /\ sy = 0
    /\ colors = <<>>
    /\ reads = <<>>
    /\ rgb = NoColor
    /\ hex_color = <<>>
    /\ path = "none"

ReplaceFile ==
    /\ pc = "idle"
    /\ outputs # <<>> /\ Len(outputs) < MaxCalls
    /\ image.block = NoBlock
    /\ \E b \in Blocks(image) :
          LET other == [image EXCEPT !.block = b]
          IN /\ other # image
             /\ AgreeOnRectangle(image, other)
             /\ image' = other
    /\ UNCHANGED <<pc, outputs, width, height, sample_width, sample_height,
                   start_x, start_y, sx, sy, colors, reads, rgb, hex_color, path>>
    /\ UNCHANGED <<main_vars, scene_vars>>

NextTwin == Open \/ Scan \/ SelectMostCommon \/ Fallback \/ Return \/ ReplaceFile

SpecTwin == InitTwin /\ [][NextTwin]_vars

(* C16: the result depends only on the size of the image and the pixels of *)
(* the sample rectangle: calls on files of one size that agree on every    *)
(* pixel of the rectangle return the same string, whatever the pixels      *)
(* outside it are.                                                         *)
C16_DependsOnlyOnRectangle ==
    /\ \A i \in DOMAIN outputs : outputs[i] = outputs[1]
    /\ (Returning /\ outputs # <<>>) => hex_color = outputs[1]

\* the 60x60 scenario: (0,127,255,255) everywhere but a transparent 6x6
\* block outside the rectangle, #007FFF before and after
C16_Witness ==
    /\ Returning
    /\ image.w = 60 /\ image.h = 60
    /\ \A i \in DOMAIN image.data : image.data[i] = Azure
    /\ image.block.w = 6 /\ image.block.h = 6 /\ image.block.pixel = Clear
    /\ outputs = << <<"#", "0", "0", "7", "F", "F", "F">> >>
    /\ hex_color = <<"#", "0", "0", "7", "F", "F", "F">>

----------------------------------------------------------------------------
LeftLoop == main_pc \in {"done", "raised"}

(* C11 as claimed: when --color / --threads-color is given, that value is  *)
(* what stands in place of __THREADS_COLOR_PLACEHOLDER__ in the script     *)
(* written for every pattern that is rendered.                             *)
C11_ColorOptionReachesScript ==
    (args_threads_color # <<>>) =>
        /\ (main_pc = "run") =>
              \A i \in DOMAIN original_script_content :
                 original_script_content[i] = ThreadsPlaceholder
                    => temp_script.bytes[i] = args_threads_color
        /\ \A k \in DOMAIN launches :
              \A i \in DOMAIN original_script_content :
                 original_script_content[i] = ThreadsPlaceholder
                    => launches[k].script[i] = args_threads_color

(* C14 as claimed: every *.png file of the patterns directory is processed *)
(* exactly once, in ascending sorted filename order, and a non-zero exit   *)
(* code of Blender for one pattern does not stop the loop, every later     *)
(* pattern still being extracted, templated and rendered: once a render    *)
(* has failed and control has left the loop, the patterns Blender was      *)
(* started for are the sorted *.png names.                                 *)
C14_EveryPatternRenderedOnce ==
    (LeftLoop /\ \E k \in DOMAIN launches : launches[k].returncode # "0") =>
        [k \in DOMAIN launches |-> launches[k].pattern]
            = Sorted(GlobPng(patterns_dir.names))

(* C15 as claimed: whenever control has left the loop, normally or by an   *)
(* exception, .render_temp.py does not exist and render_rashguard.py holds *)
(* exactly the bytes it held when it was first read; if it was never read, *)
(* it was not written.                                                     *)
C15_ScriptsCleanedAndRestored ==
    LeftLoop =>
        /\ ~temp_script.exists
        /\ template_loaded => render_script.bytes = script_at_first_read
        /\ ~template_loaded => script_writes = 0

----------------------------------------------------------------------------
(* Claims about the script run inside Blender *)

\* the slots apply_threads_color is not meant to touch, 0-based
NonThreadSlots ==
    {i \in 0..(Len(obj.material_slots) - 1) : i < 7 \/ i >= 12}

\* the 'Color' inputs of a list of nodes, in order
ColorInputs(nodes) ==
    [i \in DOMAIN nodes |-> IF nodes[i].has_color THEN nodes[i].color ELSE <<>>]

(* C12 as claimed: apply_threads_color changes only the materials of slots  *)
(* 8-12 (indices 7..11): after the call every Color input and the use_nodes *)
(* flag of each material in a slot of index < 7 or >= 12 are as they were   *)
(* when it was entered, also when that material, or a node group it uses,   *)
(* is referenced from a thread slot as well.                                *)
C12_OnlyThreadSlotsChanged ==
    bpy_pc = "applied" =>
        \A i \in NonThreadSlots :
            LET mat == obj.material_slots[i + 1]
            IN  mat # "none" =>
                  /\ materials[mat].use_nodes = materials_before[mat].use_nodes
                  /\ \A k \in DOMAIN materials_before[mat].nodes :
                        materials_before[mat].nodes[k].has_color =>
                            materials[mat].nodes[k].color
                                = materials_before[mat].nodes[k].color
                  /\ \A g \in GroupsOf(materials_before[mat].nodes) :
                        ColorInputs(node_groups[g])
                            = ColorInputs(node_groups_before[g])

\* the materials the slots of the object refer to
SlotMaterials ==
    {obj.material_slots[i] : i \in DOMAIN obj.material_slots} \ {"none"}

RECURSIVE TexImageNodes(_)
TexImageNodes(mats) ==
    IF mats = {} THEN 0
    ELSE LET m == CHOOSE x \in mats : TRUE
         IN  CountTexImage(materials[m].nodes) + TexImageNodes(mats \ {m})

(* C13 as claimed: when assign_pattern_to_rashguard_materials(image) has    *)
(* returned, every TEX_IMAGE node in the node tree of every slot's material *)
(* has the given image, and the returned count is the number of TEX_IMAGE   *)
(* nodes in those materials.                                                *)
C13_EverySlotUsesPattern ==
    bpy_pc = "apply" =>
        /\ \A m \in SlotMaterials :
              \A k \in DOMAIN materials[m].nodes :
                 materials[m].nodes[k].type = "TEX_IMAGE" =>
                     materials[m].nodes[k].image = pattern_image
        /\ assign_result = TexImageNodes(SlotMaterials)

====
